---- MODULE Spec2Model ----
(***************************************************************************)
(* A model of inpainting.py: the ImageInpaintingTool class (image loader,  *)
(* mask builder, inpainting invoker, click handler, interactive loop) and  *)
(* the __main__ entry point that drives it.                                *)
(*                                                                         *)
(* OpenCV and the file system are the environment.  Their answers are      *)
(* inputs drawn from small sets: whether the path exists, what imread      *)
(* decodes, which key waitKey returns, which mouse events the window       *)
(* delivers while waitKey runs, and whether imshow / waitKey / inpaint     *)
(* raise cv2.error.                                                        *)
(*                                                                         *)
(* A pixel of the image is modelled by its provenance: 0 for a pixel as    *)
(* decoded from the file, n > 0 for a pixel written by the n-th call of    *)
(* cv2.inpaint.  cv2.inpaint writes the pixels whose mask value is         *)
(* non-zero and copies every other pixel.                                  *)
(***************************************************************************)
EXTENDS Integers, Sequences, FiniteSets, TLC

VARIABLES
    caller,     \* who drives the class: "main" (__main__) or "client" (another caller)
    pc,         \* control position of the single thread
    file,       \* the file system's answer for image_path at the last construction
    hasSession, \* an ImageInpaintingTool object has been constructed
    image,      \* self.image
    mask,       \* the mask built by the last _create_mask call
    calls,      \* number of apply_inpainting calls
    invoked,    \* number of cv2.inpaint invocations
    replaced,   \* number of assignments self.image = cv2.inpaint(...)
    log,        \* lines printed to the console, in order
    window,     \* the "Image Inpainting" window exists
    callback,   \* _handle_mouse_click is registered on the window
    acquired,   \* number of cv2.namedWindow calls
    released,   \* number of cv2.destroyAllWindows calls
    key,        \* the local variable key of run_interactive_session
    polls,      \* number of cv2.waitKey calls that returned a key code
    events,     \* number of mouse events delivered to the callback
    runs,       \* number of run_interactive_session calls
    session,    \* state of the interactive session
    raised,     \* the exception in flight (or delivered to the client)
    last        \* the last operation performed and its arguments

vars == <<caller, pc, file, hasSession, image, mask, calls, invoked, replaced, log,
          window, callback, acquired, released, key, polls, events, runs, session,
          raised, last>>

----------------------------------------------------------------------------
(* Bounds of the model *)

MaxRadius == 1
MaxCalls == 1
MaxInputs == 2
MaxRuns == 2

(* Program constants *)

DefaultRadius == 10
White == 255
ESC == 27
EVENT_LBUTTONDOWN == 1
INPAINT_NS == 0
INPAINT_TELEA == 1
KeyMask == 256
NoKey == -1

DefaultMethod == <<"t", "e", "l", "e", "a">>
MethodNs == <<"n", "s">>

MsgNotFound == "Error: The image path 'data/example.png' does not exist."
MsgDecode == "Error: Could not load the image. Ensure the file is a valid image format."
MsgMethod == "Invalid method. Choose 'telea' or 'ns'."
MsgCv == "OpenCV error"

----------------------------------------------------------------------------
(* Inputs *)

\* (height, width) of the images the environment can decode
Shapes == {<<1, 1>>, <<2, 3>>}
NoShape == <<0, 0>>

\* what the file system holds at image_path: nothing, a file that does not
\* decode, or an image of one of the shapes
Files == {[exists |-> FALSE, shape |-> NoShape], [exists |-> TRUE, shape |-> NoShape]}
            \cup {[exists |-> TRUE, shape |-> s] : s \in Shapes}

\* method strings, as sequences of characters
Methods == { <<"t", "e", "l", "e", "a">>, <<"T", "E", "L", "E", "A">>,
             <<"n", "s">>, <<"N", "S">>,
             <<"t", "e", "l", "e">>, <<"n", "s", "x">> }

Radii == 0 .. MaxRadius

\* mouse event kinds: move, left button down, right button down, left button up
Events == {0, 1, 2, 4}

\* raw return values of cv2.waitKey: timeout, ESC, 'a', ESC with a modifier flag
RawKeys == {-1, 27, 97, 1048603}

Outcomes == {"ok", "cv2.error"}

----------------------------------------------------------------------------
(* Values *)

Cells(h, w) == (0 .. h - 1) \X (0 .. w - 1)

\* Python's None, where the code holds an image or a mask
None == [h |-> 0, w |-> 0, px |-> [c \in Cells(0, 0) |-> 0]]

\* the pixel grid cv2.imread decodes from an image file of shape s
Decoded(s) == [h |-> s[1], w |-> s[2], px |-> [c \in Cells(s[1], s[2]) |-> 0]]

\* coordinates (x, y) inside the image
InBounds(img) == (0 .. img.w - 1) \X (0 .. img.h - 1)

\* coordinates next to the image: beside each of its four edges and off two corners
OutOfBounds(img) ==
    {<<-1, 0>>, <<0, -1>>, <<img.w, img.h - 1>>, <<img.w - 1, img.h>>,
     <<-1, -1>>, <<img.w, img.h>>}

\* coordinates a caller can pass to apply_inpainting
Coords(img) == InBounds(img) \cup OutOfBounds(img)

\* coordinates of the mouse events the window delivers: two corners of the image
\* and a point outside it
ClickCoords(img) == {<<0, 0>>, <<img.w - 1, img.h - 1>>, <<-1, 0>>}

NoExc == [type |-> "none", msg |-> ""]
Exc(type, msg) == [type |-> type, msg |-> msg]

Line(text, coords, method) == [text |-> text, coords |-> coords, method |-> method]
PlainLine(text) == Line(text, <<0, 0>>, <<>>)

Op(op, event, coords, radius, method) ==
    [op |-> op, event |-> event, coords |-> coords, radius |-> radius, method |-> method]
PlainOp(op) == Op(op, 0, <<0, 0>>, 0, <<>>)

----------------------------------------------------------------------------
(* _load_image *)

\* _load_image without the "image is None" test
_load_image_no_decode_check(f) ==
    IF ~f.exists
    THEN [exc |-> Exc("FileNotFoundError", MsgNotFound), img |-> None]
    ELSE [exc |-> NoExc, img |-> IF f.shape = NoShape THEN None ELSE Decoded(f.shape)]

\* _load_image: os.path.exists, then cv2.imread, then the None test.
\* cv2.imread returns None for a file it cannot decode.
_load_image(f) ==
    IF ~f.exists
    THEN [exc |-> Exc("FileNotFoundError", MsgNotFound), img |-> None]
    ELSE LET img == IF f.shape = NoShape THEN None ELSE Decoded(f.shape)
         IN  IF img = None
             THEN [exc |-> Exc("ValueError", MsgDecode), img |-> None]
             ELSE [exc |-> NoExc, img |-> img]

----------------------------------------------------------------------------
(* _get_inpainting_flags *)

\* str.lower() on one character of the alphabet the method strings use
LowerChar(c) ==
    CASE c = "T" -> "t"
      [] c = "E" -> "e"
      [] c = "L" -> "l"
      [] c = "A" -> "a"
      [] c = "N" -> "n"
      [] c = "S" -> "s"
      [] c = "X" -> "x"
      [] OTHER -> c

Lower(s) == [i \in 1 .. Len(s) |-> LowerChar(s[i])]

\* _get_inpainting_flags comparing the method string as given
_get_inpainting_flags_case_sensitive(method) ==
    IF method = DefaultMethod
    THEN [exc |-> NoExc, flags |-> INPAINT_TELEA]
    ELSE IF method = MethodNs
         THEN [exc |-> NoExc, flags |-> INPAINT_NS]
         ELSE [exc |-> Exc("ValueError", MsgMethod), flags |-> INPAINT_NS]

_get_inpainting_flags(method) ==
    IF Lower(method) = DefaultMethod
    THEN [exc |-> NoExc, flags |-> INPAINT_TELEA]
    ELSE IF Lower(method) = MethodNs
         THEN [exc |-> NoExc, flags |-> INPAINT_NS]
         ELSE [exc |-> Exc("ValueError", MsgMethod), flags |-> INPAINT_NS]

----------------------------------------------------------------------------
(* _create_mask *)

\* np.zeros(shape, dtype=np.uint8)
Zeros(h, w) == [h |-> h, w |-> w, px |-> [c \in Cells(h, w) |-> 0]]

\* cv2.circle(img, center, radius, color, -1): the filled circle, drawn on the
\* cells the grid has.  A cell is <<row, column>>, the centre is (x, y).
Circle(grid, center, radius, color) ==
    [grid EXCEPT !.px =
        [c \in DOMAIN grid.px |->
            IF (c[2] - center[1]) * (c[2] - center[1])
                 + (c[1] - center[2]) * (c[1] - center[2]) <= radius * radius
            THEN color
            ELSE grid.px[c]]]

\* _create_mask passing the centre as (row, column)
_create_mask_transposed(img, target_coords, radius) ==
    Circle(Zeros(img.h, img.w), <<target_coords[2], target_coords[1]>>, radius, White)

_create_mask(img, target_coords, radius) ==
    Circle(Zeros(img.h, img.w), target_coords, radius, White)

----------------------------------------------------------------------------
(* cv2.inpaint *)

\* an inpaint that rewrites the whole image whatever the mask says
InpaintWholeImage(img, m, n) ==
    [img EXCEPT !.px = [c \in DOMAIN img.px |-> n]]

\* cv2.inpaint(src, mask, ...): the n-th invocation returns a copy of src in
\* which the pixels with a non-zero mask value are rewritten
Inpaint(img, m, n) ==
    [img EXCEPT !.px = [c \in DOMAIN img.px |-> IF m.px[c] # 0 THEN n ELSE img.px[c]]]

----------------------------------------------------------------------------
(* apply_inpainting and _handle_mouse_click, as functions of the object's state *)

\* the part of the state the two methods read and write
Self ==
    [image |-> image, mask |-> mask, log |-> log, calls |-> calls,
     invoked |-> invoked, replaced |-> replaced, exc |-> NoExc]

\* apply_inpainting printing its line before it calls cv2.inpaint
apply_inpainting_log_first(s, target_coords, radius, method, outcome) ==
    LET m == _create_mask(s.image, target_coords, radius)
        f == _get_inpainting_flags(method)
        called == [s EXCEPT !.calls = @ + 1, !.mask = m]
        logged == [called EXCEPT !.log = Append(@, Line("Inpainting applied", target_coords, method))]
    IN  IF f.exc # NoExc
        THEN [called EXCEPT !.exc = f.exc]
        ELSE IF outcome = "cv2.error"
             THEN [logged EXCEPT !.invoked = @ + 1, !.exc = Exc("cv2.error", MsgCv)]
             ELSE [logged EXCEPT !.invoked = @ + 1,
                                 !.image = Inpaint(s.image, m, s.invoked + 1),
                                 !.replaced = @ + 1]

\* apply_inpainting: the mask, then the flags (which may raise), then cv2.inpaint
\* (which the environment may make raise), then the assignment and the print
apply_inpainting(s, target_coords, radius, method, outcome) ==
    LET m == _create_mask(s.image, target_coords, radius)
        f == _get_inpainting_flags(method)
        called == [s EXCEPT !.calls = @ + 1, !.mask = m]
    IN  IF f.exc # NoExc
        THEN [called EXCEPT !.exc = f.exc]
        ELSE IF outcome = "cv2.error"
             THEN [called EXCEPT !.invoked = @ + 1, !.exc = Exc("cv2.error", MsgCv)]
             ELSE [called EXCEPT !.invoked = @ + 1,
                                 !.image = Inpaint(s.image, m, s.invoked + 1),
                                 !.replaced = @ + 1,
                                 !.log = Append(@, Line("Inpainting applied", target_coords, method))]

\* the event test of a handler that reacts to either button
IsAnyButtonDown(event) == event \in {1, 2}

\* event == cv2.EVENT_LBUTTONDOWN
IsPrimaryPress(event) == event = EVENT_LBUTTONDOWN

\* _handle_mouse_click
_handle_mouse_click(s, event, x, y, outcome) ==
    IF IsPrimaryPress(event)
    THEN apply_inpainting([s EXCEPT !.log = Append(@, Line("Coordinates received", <<x, y>>, <<>>))],
                         <<x, y>>, DefaultRadius, DefaultMethod, outcome)
    ELSE s

\* the object's state after a method returned or raised
Store(r) ==
    /\ image' = r.image
    /\ mask' = r.mask
    /\ log' = r.log
    /\ calls' = r.calls
    /\ invoked' = r.invoked
    /\ replaced' = r.replaced

----------------------------------------------------------------------------
(* Control *)

\* where control goes when run_interactive_session returns, and when a call raises
Returned == IF caller = "main" THEN "exit" ELSE "idle"
Thrown == IF caller = "main" THEN "except" ELSE "idle"

InitWith(who, at) ==
    /\ caller = who
    /\ pc = at
    /\ file = [exists |-> FALSE, shape |-> NoShape]
    /\ hasSession = FALSE
    /\ image = None
    /\ mask = None
    /\ calls = 0
    /\ invoked = 0
    /\ replaced = 0
    /\ log = <<>>
    /\ window = FALSE
    /\ callback = FALSE
    /\ acquired = 0
    /\ released = 0
    /\ key = NoKey
    /\ polls = 0
    /\ events = 0
    /\ runs = 0
    /\ session = "None"
    /\ raised = NoExc
    /\ last = PlainOp("start")

\* __main__ is about to run
Init == InitWith("main", "construct")

\* another caller holds the class and has called nothing yet
InitClient == InitWith("client", "idle")

\* another caller has constructed a session from an image file
InitSession ==
    \E s \in Shapes : \E f \in {[exists |-> TRUE, shape |-> s]} :
        /\ caller = "client"
        /\ pc = "idle"
        /\ file = f
        /\ hasSession = TRUE
        /\ image = _load_image(f).img
        /\ mask = None
        /\ calls = 0
        /\ invoked = 0
        /\ replaced = 0
        /\ log = <<>>
        /\ window = FALSE
        /\ callback = FALSE
        /\ acquired = 0
        /\ released = 0
        /\ key = NoKey
        /\ polls = 0
        /\ events = 0
        /\ runs = 0
        /\ session = "Initializing"
        /\ raised = NoExc
        /\ last = PlainOp("construct")

\* ImageInpaintingTool(image_path), with f what the file system holds at the path
Construct(f) ==
    LET r == _load_image(f)
    IN  /\ file' = f
        /\ raised' = r.exc
        /\ last' = PlainOp("construct")
        /\ IF r.exc = NoExc
           THEN /\ hasSession' = TRUE
                /\ image' = r.img
                /\ mask' = None
                /\ session' = "Initializing"
                /\ pc' = IF caller = "main" THEN "loaded" ELSE "idle"
           ELSE /\ pc' = Thrown
                /\ UNCHANGED <<hasSession, image, mask, session>>
        /\ UNCHANGED <<caller, calls, invoked, replaced, log, window, callback,
                       acquired, released, key, polls, events, runs>>

MainConstruct ==
    /\ caller = "main"
    /\ pc = "construct"
    /\ \E f \in Files : Construct(f)

ClientConstruct ==
    /\ caller = "client"
    /\ pc = "idle"
    /\ \E f \in Files : Construct(f)

MainPrintLoaded ==
    /\ pc = "loaded"
    /\ log' = Append(log, PlainLine("Image loaded successfully."))
    /\ pc' = "run"
    /\ last' = PlainOp("print")
    /\ UNCHANGED <<caller, file, hasSession, image, mask, calls, invoked, replaced,
                   window, callback, acquired, released, key, polls, events, runs,
                   session, raised>>

\* cv2.namedWindow and cv2.setMouseCallback
_initialize_interactive_session ==
    /\ window' = TRUE
    /\ callback' = TRUE
    /\ acquired' = acquired + 1

\* entry of run_interactive_session: _initialize_interactive_session and the print
EnterSession ==
    /\ _initialize_interactive_session
    /\ log' = Append(log, PlainLine("Press ESC to exit."))
    /\ session' = "Running"
    /\ pc' = "show"
    /\ key' = NoKey
    /\ runs' = runs + 1
    /\ raised' = NoExc
    /\ last' = PlainOp("run_interactive_session")
    /\ UNCHANGED <<caller, file, hasSession, image, mask, calls, invoked, replaced,
                   released, polls, events>>

MainRun ==
    /\ pc = "run"
    /\ EnterSession

ClientRun ==
    /\ caller = "client"
    /\ pc = "idle"
    /\ hasSession
    /\ runs < MaxRuns
    /\ EnterSession

\* an exception leaves the loop of run_interactive_session
AbnormalExit(exc) ==
    /\ raised' = exc
    /\ session' = "Failed"
    /\ pc' = Thrown

\* cv2.imshow("Image Inpainting", self.image)
Show ==
    /\ pc = "show"
    /\ \E outcome \in Outcomes :
        IF outcome = "ok"
        THEN pc' = "poll" /\ UNCHANGED <<raised, session>>
        ELSE AbnormalExit(Exc("cv2.error", MsgCv))
    /\ last' = PlainOp("imshow")
    /\ UNCHANGED <<caller, file, hasSession, image, mask, calls, invoked, replaced, log,
                   window, callback, acquired, released, key, polls, events, runs>>

\* while cv2.waitKey runs, the window delivers one mouse event to the callback.
\* An exception of the callback either leaves waitKey or is reported and dropped
\* by the binding.
MouseEvent ==
    /\ pc = "poll"
    /\ window
    /\ callback
    /\ events < MaxInputs
    /\ \E event \in Events, c \in ClickCoords(image), outcome \in Outcomes, propagates \in BOOLEAN :
        /\ IsPrimaryPress(event) => calls < MaxCalls
        /\ LET r == _handle_mouse_click(Self, event, c[1], c[2], outcome)
           IN  /\ Store(r)
               /\ IF r.exc # NoExc /\ propagates
                  THEN AbnormalExit(r.exc)
                  ELSE UNCHANGED <<pc, session>> /\ raised' = NoExc
        /\ last' = Op("mouse_event", event, c, 0, <<>>)
    /\ events' = events + 1
    /\ UNCHANGED <<caller, file, hasSession, window, callback, acquired, released,
                   key, polls, runs>>

\* the loop's exit test of a loop that any key ends
IsExitKeyAny(k) == k # KeyMask - 1

\* key == 27
IsExitKey(k) == k = ESC

\* the cleanup done inside the loop, which then goes on
EndSessionNoBreak ==
    /\ window' = FALSE
    /\ callback' = FALSE
    /\ released' = released + 1
    /\ log' = Append(log, PlainLine("Interactive session ended."))
    /\ session' = "Terminated"
    /\ pc' = "show"

\* after the loop: cv2.destroyAllWindows() and the print
EndSession ==
    /\ window' = FALSE
    /\ callback' = FALSE
    /\ released' = released + 1
    /\ log' = Append(log, PlainLine("Interactive session ended."))
    /\ session' = "Terminated"
    /\ pc' = Returned

\* key = cv2.waitKey(1) & 0xFF and the exit test
WaitKey ==
    /\ pc = "poll"
    /\ \E raw \in RawKeys, outcome \in Outcomes :
        IF outcome = "ok"
        THEN /\ key' = raw % KeyMask
             /\ polls' = polls + 1
             /\ raised' = NoExc
             /\ IF IsExitKey(raw % KeyMask)
                THEN EndSession
                ELSE /\ polls < MaxInputs
                     /\ pc' = "show"
                     /\ UNCHANGED <<window, callback, released, log, session>>
        ELSE /\ AbnormalExit(Exc("cv2.error", MsgCv))
             /\ UNCHANGED <<key, polls, window, callback, released, log>>
    /\ last' = PlainOp("waitKey")
    /\ UNCHANGED <<caller, file, hasSession, image, mask, calls, invoked, replaced,
                   acquired, events, runs>>

\* an except clause that swallows the exception without printing it
MainExceptNoPrint ==
    /\ pc = "except"
    /\ raised' = NoExc
    /\ pc' = "exit"
    /\ last' = PlainOp("except")
    /\ UNCHANGED <<caller, file, hasSession, image, mask, calls, invoked, replaced, log,
                   window, callback, acquired, released, key, polls, events, runs, session>>

\* except Exception as e: print(e)
MainExcept ==
    /\ pc = "except"
    /\ log' = Append(log, PlainLine(raised.msg))
    /\ raised' = NoExc
    /\ pc' = "exit"
    /\ last' = PlainOp("except")
    /\ UNCHANGED <<caller, file, hasSession, image, mask, calls, invoked, replaced,
                   window, callback, acquired, released, key, polls, events, runs, session>>

\* a direct call of apply_inpainting
ClientApply ==
    /\ caller = "client"
    /\ pc = "idle"
    /\ hasSession
    /\ calls < MaxCalls
    /\ \E c \in Coords(image), radius \in Radii, method \in Methods, outcome \in Outcomes :
        LET r == apply_inpainting(Self, c, radius, method, outcome)
        IN  /\ Store(r)
            /\ raised' = r.exc
            /\ last' = Op("apply_inpainting", 0, c, radius, method)
    /\ UNCHANGED <<caller, pc, file, hasSession, window, callback, acquired, released,
                   key, polls, events, runs, session>>

\* the program: __main__
Next ==
    \/ MainConstruct
    \/ MainPrintLoaded
    \/ MainRun
    \/ Show
    \/ MouseEvent
    \/ WaitKey
    \/ MainExcept

Spec == Init /\ [][Next]_vars

\* the class under a caller that constructs sessions and calls apply_inpainting
NextApi ==
    \/ ClientConstruct
    \/ ClientApply

SpecApi == InitClient /\ [][NextApi]_vars

\* the class under a caller that runs the interactive loop, more than once
NextRerun ==
    \/ ClientRun
    \/ Show
    \/ MouseEvent
    \/ WaitKey

SpecRerun == InitSession /\ [][NextRerun]_vars

----------------------------------------------------------------------------
(* Vocabulary of the properties *)

\* pairs (lower-case letter, upper-case letter)
CasePairs == {<<"t", "T">>, <<"e", "E">>, <<"l", "L">>, <<"a", "A">>,
              <<"n", "N">>, <<"s", "S">>, <<"x", "X">>}

SameLetter(a, b) == a = b \/ <<a, b>> \in CasePairs \/ <<b, a>> \in CasePairs

EqualsIgnoringCase(s, t) ==
    /\ Len(s) = Len(t)
    /\ \A i \in 1 .. Len(s) : SameLetter(s[i], t[i])

Recognized(method) ==
    \/ EqualsIgnoringCase(method, <<"t", "e", "l", "e", "a">>)
    \/ EqualsIgnoringCase(method, <<"n", "s">>)

\* the cell <<row, column>> lies in the circle of radius r around (x, y)
InCircle(cell, xy, r) ==
    (cell[2] - xy[1]) * (cell[2] - xy[1]) + (cell[1] - xy[2]) * (cell[1] - xy[2]) <= r * r

Marked(m) == {c \in DOMAIN m.px : m.px[c] = 255}

AppliedLines(lg) == {i \in 1 .. Len(lg) : lg[i].text = "Inpainting applied"}

HasLine(lg, text) == \E i \in 1 .. Len(lg) : lg[i].text = text

----------------------------------------------------------------------------
(* C1 *)

\* C1: apply_inpainting accepts every method string equal to 'telea' or 'ns'
\* ignoring letter case and then invokes cv2.inpaint; for every other method
\* string it raises ValueError (invalid method), does not invoke cv2.inpaint
\* and leaves self.image as it was.
C1_MethodSelector ==
    [][calls' = calls + 1 =>
        IF Recognized(last'.method)
        THEN invoked' = invoked + 1 /\ raised'.msg # MsgMethod
        ELSE /\ raised' = Exc("ValueError", MsgMethod)
             /\ invoked' = invoked
             /\ replaced' = replaced
             /\ image' = image]_vars

\* an upper-case method was accepted
C1_Witness ==
    /\ last.op = "apply_inpainting"
    /\ last.method = <<"N", "S">>
    /\ invoked = 1
    /\ replaced = 1
    /\ raised = NoExc

----------------------------------------------------------------------------
(* C2 *)

\* C2: constructing a session has three outcomes, decided in this order: a
\* path that does not exist fails with FileNotFoundError; an existing file
\* that does not decode fails with ValueError; otherwise the session holds a
\* pixel grid of exactly the decoded height and width.  No session holds an
\* unset image.
C2_ConstructOutcomes ==
    /\ hasSession => image # None
    /\ last.op = "construct" =>
        /\ ~file.exists =>
            raised = Exc("FileNotFoundError", MsgNotFound) /\ ~hasSession
        /\ (file.exists /\ file.shape = NoShape) =>
            raised = Exc("ValueError", MsgDecode) /\ ~hasSession
        /\ (file.exists /\ file.shape # NoShape) =>
            /\ raised = NoExc
            /\ hasSession
            /\ image.h = file.shape[1]
            /\ image.w = file.shape[2]
            /\ DOMAIN image.px = Cells(file.shape[1], file.shape[2])

\* an existing file that does not decode was refused
C2_Witness ==
    /\ last.op = "construct"
    /\ file.exists
    /\ file.shape = NoShape
    /\ raised.type = "ValueError"
    /\ ~hasSession

----------------------------------------------------------------------------
(* C3 *)

\* C3: for a coordinate inside the image and a radius >= 0, the mask has the
\* height and width of the image, every cell is 0 or 255, the cells equal to
\* 255 are exactly the cells of the image inside the circle of that radius
\* around the coordinate, and the number of 255 cells does not decrease when
\* the radius grows.
C3_MaskOfCircle ==
    (last.op = "apply_inpainting" /\ last.coords \in InBounds(image)) =>
        /\ mask.h = image.h
        /\ mask.w = image.w
        /\ DOMAIN mask.px = Cells(image.h, image.w)
        /\ \A c \in Cells(image.h, image.w) :
            /\ mask.px[c] \in {0, 255}
            /\ mask.px[c] = 255 <=> InCircle(c, last.coords, last.radius)
        /\ \A xy \in InBounds(image) : \A r \in 0 .. MaxRadius :
            /\ Marked(_create_mask(image, xy, r)) = {c \in Cells(image.h, image.w) : InCircle(c, xy, r)}
            /\ Cardinality(Marked(_create_mask(image, xy, r)))
                 <= Cardinality(Marked(_create_mask(image, xy, r + 1)))

\* a mask with marked and unmarked cells was built around a coordinate of the image
C3_Witness ==
    /\ last.op = "apply_inpainting"
    /\ last.coords = <<2, 0>>
    /\ last.radius = 1
    /\ Marked(mask) = {<<0, 1>>, <<0, 2>>, <<1, 2>>}

----------------------------------------------------------------------------
(* C4 *)

\* C4: when cv2.waitKey returns a key, the loop ends exactly when the key is
\* ESC (27): the window is released and "Interactive session ended." is
\* logged.  Any other key, and a poll that times out, keep the session
\* Running.  A session that ends on its first poll with no click delivered
\* has logged no "Inpainting applied" line, and logs none afterwards.
C4_EscEndsSession ==
    [][/\ (pc = "poll" /\ polls' = polls + 1) =>
            /\ key' = ESC =>
                /\ session = "Running"
                /\ session' = "Terminated"
                /\ ~window'
                /\ released' = released + 1
                /\ log' = Append(log, PlainLine("Interactive session ended."))
            /\ key' # ESC =>
                /\ session' = "Running"
                /\ window'
                /\ pc' = "show"
                /\ log' = log
            /\ (key' = ESC /\ polls = 0 /\ events = 0) => AppliedLines(log') = {}
       /\ (session = "Running" /\ session' = "Terminated") => key' = ESC
       /\ session = "Terminated" => log' = log]_vars

\* ESC was the first input polled and no click came before it
C4_Witness ==
    /\ session = "Terminated"
    /\ key = ESC
    /\ polls = 1
    /\ events = 0
    /\ ~window
    /\ HasLine(log, "Interactive session ended.")
    /\ AppliedLines(log) = {}

----------------------------------------------------------------------------
(* C5 *)

\* C5: once the window has been acquired, every way the session can end, the
\* ESC exit and an exit by a failure raised while Running, runs the window
\* release exactly once before the process exits.
C5_WindowReleasedOnEveryExit ==
    (pc = "exit" /\ acquired = 1) => released = 1

----------------------------------------------------------------------------
(* C6 *)

\* C6: the click handler inpaints only on a left-button-down event, and then
\* at the clicked (x, y) with radius 10 and method 'telea'; on every other
\* event it leaves the image unchanged, builds no mask, invokes nothing and
\* logs nothing.
C6_ClickHandler ==
    [][events' = events + 1 =>
        IF last'.event = 1
        THEN /\ calls' = calls + 1
             /\ invoked' = invoked + 1
             /\ mask' = _create_mask(image, last'.coords, 10)
             /\ replaced' = replaced + 1 =>
                 /\ image' = Inpaint(image, mask', invoked')
                 /\ log' = log \o <<Line("Coordinates received", last'.coords, <<>>),
                                    Line("Inpainting applied", last'.coords,
                                         <<"t", "e", "l", "e", "a">>)>>
             /\ replaced' = replaced =>
                 /\ image' = image
                 /\ log' = Append(log, Line("Coordinates received", last'.coords, <<>>))
        ELSE /\ image' = image
             /\ mask' = mask
             /\ calls' = calls
             /\ invoked' = invoked
             /\ replaced' = replaced
             /\ log' = log]_vars

\* a left-button-down event at the far corner of a 2 x 3 image was inpainted
C6_Witness ==
    /\ last.op = "mouse_event"
    /\ last.event = 1
    /\ last.coords = <<2, 1>>
    /\ replaced = 1
    /\ Marked(mask) = Cells(2, 3)

----------------------------------------------------------------------------
(* C7 *)

\* C7: in every reachable state the number of "Inpainting applied" lines
\* equals the number of inpaint invocations that completed and replaced the
\* image; each such line carries the coordinate of its click and the method,
\* and an invocation that fails adds none.
C7_OneLinePerInpaint ==
    /\ Cardinality(AppliedLines(log)) = replaced
    /\ replaced <= invoked
    /\ \A i \in AppliedLines(log) :
        /\ i > 1
        /\ log[i - 1] = Line("Coordinates received", log[i].coords, <<>>)
        /\ log[i].method = <<"t", "e", "l", "e", "a">>
    /\ (last.op = "mouse_event" /\ last.event = 1) =>
        IF \E c \in DOMAIN image.px : image.px[c] = invoked
        THEN log[Len(log)] = Line("Inpainting applied", last.coords, <<"t", "e", "l", "e", "a">>)
        ELSE log[Len(log)] = Line("Coordinates received", last.coords, <<>>)

\* a click was inpainted and its line logged
C7_Witness ==
    /\ last.op = "mouse_event"
    /\ replaced = 1
    /\ invoked = 1
    /\ Len(log) > 0
    /\ log[Len(log)] = Line("Inpainting applied", <<0, 0>>, <<"t", "e", "l", "e", "a">>)

----------------------------------------------------------------------------
(* C8 *)

\* C8: when the image does not load, the failure is raised at construction:
\* no window is created, no handler is registered, neither "Image loaded
\* successfully." nor "Press ESC to exit." is logged, and the entry point
\* catches the failure, prints its message and ends without propagating it.
C8_LoadFailure ==
    (last.op # "start" /\ ~(file.exists /\ file.shape # NoShape)) =>
        /\ ~hasSession
        /\ ~window
        /\ ~callback
        /\ acquired = 0
        /\ session = "None"
        /\ ~HasLine(log, "Image loaded successfully.")
        /\ ~HasLine(log, "Press ESC to exit.")
        /\ pc \in {"except", "exit"}
        /\ pc = "except" =>
            /\ log = <<>>
            /\ raised = IF file.exists THEN Exc("ValueError", MsgDecode)
                                       ELSE Exc("FileNotFoundError", MsgNotFound)
        /\ pc = "exit" =>
            /\ raised = NoExc
            /\ log = <<PlainLine(IF file.exists THEN MsgDecode ELSE MsgNotFound)>>

\* the entry point ended after printing the message of a missing path
C8_Witness ==
    /\ pc = "exit"
    /\ ~file.exists
    /\ ~hasSession
    /\ log = <<PlainLine(MsgNotFound)>>
    /\ raised = NoExc

----------------------------------------------------------------------------
(* C9 *)

\* C9 as stated: Terminated is absorbing: once the session is Terminated it
\* stays Terminated, no click is processed, the image does not change and no
\* line is logged.
C9_TerminatedIsAbsorbing ==
    [][session = "Terminated" =>
        /\ session' = "Terminated"
        /\ events' = events
        /\ image' = image
        /\ log' = log]_vars

\* C9 as amended: while the session is Terminated no click is processed (the
\* image does not change, nothing is logged); the session leaves Terminated
\* only by a further call of run_interactive_session on the same object,
\* which creates the window again, registers the handler again and makes the
\* session Running.
C9_TerminatedUntilRunAgain ==
    [][session = "Terminated" =>
        \/ /\ session' = "Terminated"
           /\ events' = events
           /\ image' = image
           /\ log' = log
        \/ /\ session' = "Running"
           /\ last'.op = "run_interactive_session"
           /\ runs' = runs + 1
           /\ acquired' = acquired + 1
           /\ window'
           /\ callback'
           /\ events' = events
           /\ image' = image]_vars

\* the same session is Running a second time and has processed a click in it
C9_Witness ==
    /\ runs = 2
    /\ released = 1
    /\ session = "Running"
    /\ last.op = "mouse_event"
    /\ last.event = 1
    /\ replaced = 1
    /\ log[1] = PlainLine("Press ESC to exit.")
    /\ log[2] = PlainLine("Interactive session ended.")

----------------------------------------------------------------------------
(* C10 *)

\* C10 as stated: for a coordinate outside the image and a radius >= 0 the
\* mask marks no pixel and the image is left as it was.
C10_OutOfBoundsMarksNothing ==
    [][(calls' = calls + 1 /\ last'.coords \notin InBounds(image)) =>
        /\ Marked(mask') = {}
        /\ image' = image]_vars

\* C10 as amended: for a coordinate outside the image and a radius >= 0 the
\* mask builder raises nothing and marks exactly the cells of the image that
\* lie within the radius of the coordinate; when no cell does (always for
\* radius 0) the mask is all 0 and the inpaint call leaves the image as it
\* was.
C10_OutOfBoundsClipped ==
    [][(calls' = calls + 1 /\ last'.coords \notin InBounds(image)) =>
        /\ mask'.h = image.h
        /\ mask'.w = image.w
        /\ \A c \in Cells(image.h, image.w) :
            mask'.px[c] = IF InCircle(c, last'.coords, last'.radius) THEN 255 ELSE 0
        /\ raised'.type \in {"none", "ValueError", "cv2.error"}
        /\ raised'.type # "none" => replaced' = replaced
        /\ (\A c \in Cells(image.h, image.w) : ~InCircle(c, last'.coords, last'.radius)) =>
            /\ Marked(mask') = {}
            /\ image' = image
        /\ last'.radius = 0 => image' = image]_vars

\* an inpaint call off the corner of the image with radius 1 completed with an empty mask
C10_Witness ==
    /\ last.op = "apply_inpainting"
    /\ last.coords = <<-1, -1>>
    /\ last.radius = 1
    /\ replaced = 1
    /\ Marked(mask) = {}
    /\ \A c \in DOMAIN image.px : image.px[c] = 0

====
